---- MODULE Spec2Model ----
(***************************************************************************)
(* sys-montion: a one-shot status query tool (src/src/main.rs).            *)
(*                                                                         *)
(* One run of the program: clap parses six boolean flags, main dispatches  *)
(* to one query by an if / else-if chain, the query reads pseudo-files or  *)
(* spawns `amixer get Master`, formats one line and prints it.  A run      *)
(* starts after get_matches() returned: command lines that clap rejects or *)
(* answers itself (--help, --version) never reach the dispatch.            *)
(*                                                                         *)
(* Text is modelled by TLA+ strings, character by character: Len, SubSeq   *)
(* and \o are the only primitives used.  i32 values are TLA+ integers      *)
(* (they fit); i64 values are sign + decimal magnitude, so that the full   *)
(* 64-bit range and its overflow are represented.                          *)
(***************************************************************************)
EXTENDS Integers, Sequences, FiniteSets, TLC

VARIABLES
    flags,      \* the set of flags clap reports as set      (main.rs:116-155)
    overflow_checks, \* whether the binary was built with overflow checks
    pc,         \* "start" before the dispatch, "done" after the process ended
    ran,        \* the branch of the dispatch chain that was taken
    io,         \* the files read and subprocesses spawned, in order, with results
    out,        \* the lines written to standard output
    err,        \* the lines written to standard error by eprintln!
    panicked,   \* "none", or the message of the panic that aborted the run
    exit        \* the exit code once the process ended, -1 while it runs

vars == <<flags, overflow_checks, pc, ran, io, out, err, panicked, exit>>

-----------------------------------------------------------------------------
(* Characters and strings                                                  *)

Char(s, i) == SubSeq(s, i, i)

Last(s) == SubSeq(s, Len(s), Len(s))

Front(s) == SubSeq(s, 1, Len(s) - 1)

\* char::is_whitespace, restricted to the ASCII white space the inputs use
IsWhite(c) == c \in {" ", "\n", "\t", "\r"}

RECURSIVE TrimStart(_)
TrimStart(s) ==
    IF s # "" /\ IsWhite(Head(s)) THEN TrimStart(Tail(s)) ELSE s

RECURSIVE TrimEnd(_)
TrimEnd(s) ==
    IF s # "" /\ IsWhite(Last(s)) THEN TrimEnd(Front(s)) ELSE s

\* str::trim
Trim(s) == TrimEnd(TrimStart(s))

\* str::starts_with
StartsWith(s, p) == Len(s) >= Len(p) /\ SubSeq(s, 1, Len(p)) = p

\* str::find: the 0-based byte offset of the first occurrence of p, -1 for None
RECURSIVE FindFrom(_, _, _)
FindFrom(s, p, i) ==
    IF i + Len(p) > Len(s) THEN -1
    ELSE IF SubSeq(s, i + 1, i + Len(p)) = p THEN i
    ELSE FindFrom(s, p, i + 1)

Find(s, p) == FindFrom(s, p, 0)

\* str::contains
Contains(s, p) == Find(s, p) # -1

\* str::lines: split at "\n", a final empty piece is dropped, and a "\r"
\* right before the line end is not part of the line
StripCR(l) == IF l # "" /\ Last(l) = "\r" THEN Front(l) ELSE l

RECURSIVE Lines(_)
Lines(s) ==
    IF s = "" THEN <<>>
    ELSE LET n == Find(s, "\n")
         IN  IF n = -1 THEN <<StripCR(s)>>
             ELSE <<StripCR(SubSeq(s, 1, n))>> \o Lines(SubSeq(s, n + 2, Len(s)))

\* str::split_whitespace: the maximal runs of non-white-space characters
RECURSIVE TakeWord(_)
TakeWord(s) ==
    IF s = "" \/ IsWhite(Head(s)) THEN "" ELSE Head(s) \o TakeWord(Tail(s))

RECURSIVE SplitWhitespace(_)
SplitWhitespace(s) ==
    LET t == TrimStart(s)
        w == TakeWord(t)
    IN  IF t = "" THEN <<>>
        ELSE <<w>> \o SplitWhitespace(SubSeq(t, Len(w) + 1, Len(t)))

-----------------------------------------------------------------------------
(* Integers: <i32 as FromStr>::from_str, <i64 as FromStr>::from_str, the   *)
(* arithmetic of main.rs:68 and main.rs:98, and Display for both types     *)

Digits == "0123456789"

IsDigit(c) == c # "" /\ Contains(Digits, c)

DigitVal(c) == Find(Digits, c)

DigitChar(d) == Char(Digits, d + 1)

RECURSIVE AllDigits(_)
AllDigits(s) == s = "" \/ (IsDigit(Head(s)) /\ AllDigits(Tail(s)))

\* a magnitude is a decimal numeral without leading zeros ("0" for zero)
RECURSIVE StripZeros(_)
StripZeros(s) == IF Len(s) > 1 /\ Head(s) = "0" THEN StripZeros(Tail(s)) ELSE s

RECURSIVE LexLess(_, _)
LexLess(a, b) ==
    /\ a # ""
    /\ \/ DigitVal(Head(a)) < DigitVal(Head(b))
       \/ Head(a) = Head(b) /\ LexLess(Tail(a), Tail(b))

MagLess(a, b) == Len(a) < Len(b) \/ (Len(a) = Len(b) /\ LexLess(a, b))

RECURSIVE AddCarry(_, _, _)
AddCarry(a, b, c) ==
    IF a = "" /\ b = "" THEN (IF c = 0 THEN "" ELSE DigitChar(c))
    ELSE LET da == IF a = "" THEN 0 ELSE DigitVal(Last(a))
             db == IF b = "" THEN 0 ELSE DigitVal(Last(b))
             t  == da + db + c
         IN  AddCarry(IF a = "" THEN "" ELSE Front(a),
                      IF b = "" THEN "" ELSE Front(b), t \div 10)
                 \o DigitChar(t % 10)

MagAdd(a, b) == StripZeros(AddCarry(a, b, 0))

\* a - b for magnitudes with b <= a
RECURSIVE SubBorrow(_, _, _)
SubBorrow(a, b, c) ==
    IF a = "" THEN ""
    ELSE LET da == DigitVal(Last(a))
             db == IF b = "" THEN 0 ELSE DigitVal(Last(b))
             t  == da - db - c
         IN  SubBorrow(Front(a), IF b = "" THEN "" ELSE Front(b),
                       IF t < 0 THEN 1 ELSE 0)
                 \o DigitChar(IF t < 0 THEN t + 10 ELSE t)

MagSub(a, b) == StripZeros(SubBorrow(a, b, 0))

\* the quotient of a magnitude by a small divisor, by long division
RECURSIVE DivRem(_, _, _)
DivRem(s, d, r) ==
    IF s = "" THEN ""
    ELSE LET cur == r * 10 + DigitVal(Head(s))
         IN  DigitChar(cur \div d) \o DivRem(Tail(s), d, cur % d)

MagDiv(a, d) == StripZeros(DivRem(a, d, 0))

\* a signed value: sign and magnitude, zero is never negative
Signed(neg, mag) == [neg |-> neg /\ mag # "0", mag |-> mag]

Zero == Signed(FALSE, "0")

Negate(x) == Signed(~x.neg, x.mag)

SignedAdd(x, y) ==
    IF x.neg = y.neg THEN Signed(x.neg, MagAdd(x.mag, y.mag))
    ELSE IF MagLess(x.mag, y.mag) THEN Signed(y.neg, MagSub(y.mag, x.mag))
    ELSE Signed(x.neg, MagSub(x.mag, y.mag))

\* Display for a signed integer
SignedStr(x) == (IF x.neg THEN "-" ELSE "") \o x.mag

\* The syntax shared by the integer parsers: an optional sign, then one or
\* more ASCII digits and nothing else.  ok is FALSE for anything else.
ParseDecimal(s) ==
    LET signed == s # "" /\ Head(s) \in {"+", "-"}
        body   == IF signed THEN Tail(s) ELSE s
    IN  IF body = "" \/ ~AllDigits(body) THEN [ok |-> FALSE, val |-> Zero]
        ELSE [ok |-> TRUE,
              val |-> Signed(signed /\ Head(s) = "-", StripZeros(body))]

I32MaxMag == "2147483647"
I32MinMag == "2147483648"
I64MaxMag == "9223372036854775807"
I64MinMag == "9223372036854775808"
Pow64 == "18446744073709551616"

FitsI32(x) == ~MagLess(IF x.neg THEN I32MinMag ELSE I32MaxMag, x.mag)
FitsI64(x) == ~MagLess(IF x.neg THEN I64MinMag ELSE I64MaxMag, x.mag)

I32Max == 2147483647
I32Min == -2147483647 - 1

\* the integer a magnitude of at most 2147483647 denotes
RECURSIVE MagNat(_, _)
MagNat(s, acc) == IF s = "" THEN acc ELSE MagNat(Tail(s), acc * 10 + DigitVal(Head(s)))

ToInt(x) ==
    IF x.neg THEN (IF x.mag = I32MinMag THEN I32Min ELSE 0 - MagNat(x.mag, 0))
    ELSE MagNat(x.mag, 0)

\* str::parse::<i32>().unwrap_or(dflt): out of range is an error too
ParseI32Or(s, dflt) ==
    LET p == ParseDecimal(s)
    IN  IF p.ok /\ FitsI32(p.val) THEN ToInt(p.val) ELSE dflt

\* str::parse::<i64>().unwrap_or(0)
ParseI64Or0(s) ==
    LET p == ParseDecimal(s)
    IN  IF p.ok /\ FitsI64(p.val) THEN p.val ELSE Zero

\* Display for i32
RECURSIVE NatStr(_)
NatStr(n) == IF n < 10 THEN DigitChar(n) ELSE NatStr(n \div 10) \o DigitChar(n % 10)

I32Str(n) ==
    IF n = I32Min THEN "-" \o I32MinMag
    ELSE IF n < 0 THEN "-" \o NatStr(0 - n)
    ELSE NatStr(n)

\* i32 division: the quotient truncated toward zero, for a divisor that is
\* not 0 and a quotient that fits (that is, not I32Min / -1)
TruncDivPos(a, b) ==
    IF a < 0 /\ a % b # 0 THEN (a \div b) + 1 ELSE a \div b

TruncDiv(a, b) ==
    IF b > 0 THEN TruncDivPos(a, b)
    ELSE IF b = I32Min THEN (IF a = I32Min THEN 1 ELSE 0)
    ELSE 0 - TruncDivPos(a, 0 - b)

\* a * 100 reduced to 32 bits two's complement (the wrapping product),
\* computed on 16-bit halves so that no intermediate leaves 32 bits
WrapMul100(a) ==
    LET hi  == a \div 65536
        lo  == a % 65536
        low == (lo * 100) % 65536
        top == (hi * 100 + (lo * 100) \div 65536) % 65536
    IN  (IF top >= 32768 THEN top - 65536 ELSE top) * 65536 + low

Mul100Overflows(a) == a > I32Max \div 100 \/ a < 0 - (I32Max \div 100)

\* x - y reduced to 64 bits two's complement
WrapI64(x) ==
    IF FitsI64(x) THEN x
    ELSE IF x.neg THEN Signed(FALSE, MagSub(Pow64, x.mag))
    ELSE Signed(TRUE, MagSub(Pow64, x.mag))

-----------------------------------------------------------------------------
(* Results                                                                 *)

\* Result<String, io::Error>, and a third outcome for a panic inside a query
Ok(v) == [kind |-> "ok", val |-> v]
Err(cause) == [kind |-> "err", val |-> cause]
Panic(msg) == [kind |-> "panic", val |-> msg]

\* What fs::read_to_string or Command::output hands back: the text, or the
\* io::Error whose Display is `cause`
Content(text) == [ok |-> TRUE, text |-> text]
Failure(cause) == [ok |-> FALSE, text |-> cause]

-----------------------------------------------------------------------------
(* The query functions                                                     *)

\* read_file without the trim
ReadFileUntrimmed(r) == IF r.ok THEN Ok(r.text) ELSE Err(r.text)

read_file(r) == IF r.ok THEN Ok(Trim(r.text)) ELSE Err(r.text)

get_battery_capacity(r) == read_file(r)

get_battery_status(r) == read_file(r)

UsageText ==
    "Usage: \n"
    \o "        --battery        Output battery status and capacity.\n"
    \o "        --battery-state  Output battery status only.\n"
    \o "        --battery-level  Output battery capacity only.\n"
    \o "        --volume-level   Output volume level.\n"
    \o "        --backlight      Output backlight"

\* the slice taken from the bracket itself
SliceWithBracket(line, start, end) ==
    IF start > end + 1 THEN Panic("slice index starts past its end")
    ELSE Ok("VOL: " \o SubSeq(line, start + 1, end + 1))

\* &line[start + 1..end + 1] for the 0-based offsets start and end: a range
\* whose begin exceeds its end panics
Slice(line, start, end) ==
    IF start + 1 > end + 1 THEN Panic("slice index starts past its end")
    ELSE Ok("VOL: " \o SubSeq(line, start + 2, end + 1))

\* the loop with the percentage looked for before the mute marker
RECURSIVE ScanVolumePercentFirst(_)
ScanVolumePercentFirst(lines) ==
    IF lines = <<>> THEN Ok("Unknown")
    ELSE LET line  == Head(lines)
             start == Find(line, "[")
             end   == Find(line, "%")
         IN  IF /\ (Contains(line, "Mono:") \/ Contains(line, "Front Left:"))
                /\ start # -1
                /\ end # -1
             THEN Slice(line, start, end)
             ELSE IF Contains(line, "[off]") THEN Ok("MUTED")
             ELSE ScanVolumePercentFirst(Tail(lines))

\* the for loop of get_volume_level over the remaining lines
RECURSIVE ScanVolume(_)
ScanVolume(lines) ==
    IF lines = <<>> THEN Ok("Unknown")
    ELSE LET line  == Head(lines)
             start == Find(line, "[")
             end   == Find(line, "%")
         IN  IF Contains(line, "[off]") THEN Ok("MUTED")
             ELSE IF /\ (Contains(line, "Mono:") \/ Contains(line, "Front Left:"))
                     /\ start # -1
                     /\ end # -1
                  THEN Slice(line, start, end)
             ELSE ScanVolume(Tail(lines))

\* sp: the outcome of Command::new("amixer")...output(), its text the
\* lossily decoded standard output
get_volume_level(sp) ==
    IF ~sp.ok THEN Err(sp.text) ELSE ScanVolume(Lines(sp.text))

\* the percentage clamped to 100
PercentageClamped(current, max, checks) ==
    IF Mul100Overflows(current) /\ checks
    THEN Panic("attempt to multiply with overflow")
    ELSE LET prod == IF Mul100Overflows(current) THEN WrapMul100(current)
                     ELSE current * 100
         IN  IF max = 0 THEN Panic("attempt to divide by zero")
             ELSE IF prod = I32Min /\ max = -1
                  THEN Panic("attempt to divide with overflow")
             ELSE LET q == TruncDiv(prod, max)
                  IN  Ok("BL: " \o I32Str(IF q > 100 THEN 100 ELSE q) \o "%")

\* (current * 100) / max in i32; checks: the build has overflow checks
Percentage(current, max, checks) ==
    IF Mul100Overflows(current) /\ checks
    THEN Panic("attempt to multiply with overflow")
    ELSE LET prod == IF Mul100Overflows(current) THEN WrapMul100(current)
                     ELSE current * 100
         IN  IF max = 0 THEN Panic("attempt to divide by zero")
             ELSE IF prod = I32Min /\ max = -1
                  THEN Panic("attempt to divide with overflow")
             ELSE Ok("BL: " \o I32Str(TruncDiv(prod, max)) \o "%")

\* b, m: the outcomes of reading brightness and max_brightness; m is not
\* looked at when b failed (the ? returns before the second read)
get_brightness(b, m, checks) ==
    LET cur == read_file(b)
        mx  == read_file(m)
    IN  IF cur.kind = "err" THEN cur
        ELSE IF mx.kind = "err" THEN mx
        ELSE Percentage(ParseI32Or(cur.val, 0), ParseI32Or(mx.val, 1), checks)

parse_meminfo_value(line) ==
    LET toks == SplitWhitespace(line)
    IN  ParseI64Or0(IF Len(toks) >= 2 THEN toks[2] ELSE "0")

\* the loop keeping the first value found for each key
RECURSIVE ScanMeminfoFirstWins(_, _)
ScanMeminfoFirstWins(lines, acc) ==
    IF lines = <<>> THEN acc
    ELSE LET line == Head(lines)
         IN  ScanMeminfoFirstWins(Tail(lines),
                 IF StartsWith(line, "MemTotal:") /\ acc.total = Zero
                 THEN [acc EXCEPT !.total = parse_meminfo_value(line)]
                 ELSE IF StartsWith(line, "MemAvailable:") /\ acc.available = Zero
                 THEN [acc EXCEPT !.available = parse_meminfo_value(line)]
                 ELSE acc)

\* the loop left as soon as MemTotal was found
RECURSIVE ScanMeminfoBreak(_, _)
ScanMeminfoBreak(lines, acc) ==
    IF lines = <<>> THEN acc
    ELSE LET line == Head(lines)
         IN  IF StartsWith(line, "MemTotal:")
             THEN [acc EXCEPT !.total = parse_meminfo_value(line)]
             ELSE ScanMeminfoBreak(Tail(lines),
                      IF StartsWith(line, "MemAvailable:")
                      THEN [acc EXCEPT !.available = parse_meminfo_value(line)]
                      ELSE acc)

\* the for loop of get_memory: acc holds total_memory and available_memory
RECURSIVE ScanMeminfo(_, _)
ScanMeminfo(lines, acc) ==
    IF lines = <<>> THEN acc
    ELSE LET line == Head(lines)
         IN  ScanMeminfo(Tail(lines),
                 IF StartsWith(line, "MemTotal:")
                 THEN [acc EXCEPT !.total = parse_meminfo_value(line)]
                 ELSE IF StartsWith(line, "MemAvailable:")
                 THEN [acc EXCEPT !.available = parse_meminfo_value(line)]
                 ELSE acc)

\* (total_memory - available_memory) / 1024 in i64
UsedMemory(total, available, checks) ==
    LET diff == SignedAdd(total, Negate(available))
    IN  IF ~FitsI64(diff) /\ checks
        THEN Panic("attempt to subtract with overflow")
        ELSE LET w == WrapI64(diff)
             IN  Ok("MEM: " \o SignedStr(Signed(w.neg, MagDiv(w.mag, 1024))) \o "M")

get_memory(r, checks) ==
    LET meminfo == read_file(r)
        acc == ScanMeminfo(Lines(meminfo.val), [total |-> Zero, available |-> Zero])
    IN  IF meminfo.kind = "err" THEN meminfo
        ELSE IF acc.total = Zero THEN Ok("Unable to retrieve memory info")
        ELSE UsedMemory(acc.total, acc.available, checks)

-----------------------------------------------------------------------------
(* The environment of one run                                              *)

Flags == {"battery", "battery-state", "battery-capacity",
          "volume-level", "backlight", "memory"}

CapacityPath == "/sys/class/power_supply/BAT0/capacity"
StatusPath == "/sys/class/power_supply/BAT0/status"
BrightnessPath == "/sys/class/backlight/amdgpu_bl1/brightness"
MaxBrightnessPath == "/sys/class/backlight/amdgpu_bl1/max_brightness"
MeminfoPath == "/proc/meminfo"
Amixer == "amixer get Master"

\* the largest raw brightness level enumerated exhaustively
MaxLevel == 6
\* the largest number of lines of an amixer output
MaxLines == 2
\* the largest number of lines of a meminfo text
MaxMemLines == 2

IoErrors == {"No such file or directory (os error 2)",
             "Permission denied (os error 13)"}

Failures == {Failure(c) : c \in IoErrors}

\* what the battery pseudo-files may hold: a value, framed by white space
BatteryTexts ==
    {a \o c \o b : a \in {"", " "},
                   c \in {"47", "Not charging", ""},
                   b \in {"", "\n"}}

BatteryResults == {Content(t) : t \in BatteryTexts} \cup Failures

\* what brightness and max_brightness may hold: every level up to MaxLevel
\* in either sign, the levels at which the percentage rounds, overflows or
\* the parse fails, and text that is no integer
LevelTexts ==
    {I32Str(n) \o "\n" : n \in (0 - MaxLevel)..MaxLevel}
    \cup {"255\n", "1000\n", "1001\n", "21474836\n", "21474837\n",
          "2147483647\n", "-2147483648\n", "2147483648\n",
          "+5\n", " 7 \n", "abc\n", "1 0\n", ""}

LevelResults == {Content(t) : t \in LevelTexts} \cup Failures

\* lines `amixer get Master` may print
VolumeLines ==
    {"Simple mixer control 'Master',0",
     "  Mono: Playback 50 [65%] [-10.00dB] [on]",
     "  Mono: Playback 50 [65%] [-10.00dB] [off]",
     "  Front Left: Playback 40 [40%] [on]",
     "  Front Right: Playback 40 [40%] [off]",
     "  Mono: Playback 5% [on]",
     "  Mono:",
     "  Front Left: Playback [on]"}

\* lines /proc/meminfo may hold
MemLines ==
    {"MemTotal:       16000000 kB",
     "MemAvailable:    8000000 kB",
     "MemTotal: 2048 kB",
     "MemTotal: n/a",
     "MemFree: 512 kB",
     " MemTotal: 4096 kB",
     "MemTotal: 9223372036854775807 kB",
     "MemAvailable: -1024 kB",
     "MemAvailable:"}

\* the sequences of at most n elements of S
SeqsUpTo(S, n) == UNION {[1..k -> S] : k \in 0..n}

\* the text whose lines are ls, each ended by a line feed
RECURSIVE Unlines(_)
Unlines(ls) == IF ls = <<>> THEN "" ELSE Head(ls) \o "\n" \o Unlines(Tail(ls))

VolumeResults ==
    {Content(Unlines(ls)) : ls \in SeqsUpTo(VolumeLines, MaxLines)} \cup Failures

MeminfoResults ==
    {Content(Unlines(ls)) : ls \in SeqsUpTo(MemLines, MaxMemLines)} \cup Failures

-----------------------------------------------------------------------------
(* main                                                                    *)

\* one entry of io: a file read or a subprocess spawned, with its outcome
Read(path, r) == [op |-> "read", what |-> path, res |-> r]
Spawn(cmd, r) == [op |-> "spawn", what |-> cmd, res |-> r]

\* get_brightness opening both files before it looks at either result
BrightnessReadsBoth(b, m) ==
    <<Read(BrightnessPath, b), Read(MaxBrightnessPath, m)>>

\* the reads get_brightness performs: the ? after the first read returns
\* before max_brightness is opened
BrightnessReads(b, m) ==
    IF b.ok THEN <<Read(BrightnessPath, b), Read(MaxBrightnessPath, m)>>
    ELSE <<Read(BrightnessPath, b)>>

\* the chain with its first two tests in the other order
BranchStateFirst(fl) ==
    IF "battery-state" \in fl THEN "battery-state"
    ELSE IF "battery" \in fl THEN "battery"
    ELSE IF "battery-capacity" \in fl THEN "battery-capacity"
    ELSE IF "volume-level" \in fl THEN "volume-level"
    ELSE IF "backlight" \in fl THEN "backlight"
    ELSE IF "memory" \in fl THEN "memory"
    ELSE "help"

\* the if / else-if chain of main: the branch taken for a set of flags
Branch(fl) ==
    IF "battery" \in fl THEN "battery"
    ELSE IF "battery-state" \in fl THEN "battery-state"
    ELSE IF "battery-capacity" \in fl THEN "battery-capacity"
    ELSE IF "volume-level" \in fl THEN "volume-level"
    ELSE IF "backlight" \in fl THEN "backlight"
    ELSE IF "memory" \in fl THEN "memory"
    ELSE "help"

\* unwrap_or_else(|e| { eprintln!("Error reading <field>: {}", e); "Unknown" })
Value(res) == IF res.kind = "ok" THEN res.val ELSE "Unknown"
Diagnostic(field, res) ==
    IF res.kind = "err" THEN <<"Error reading " \o field \o ": " \o res.val>>
    ELSE <<>>

\* the field each branch names in the diagnostic of its single query
DiagField(branch) ==
    CASE branch = "volume-level" -> "volume level"
      [] branch = "backlight" -> "backlight"
      [] branch = "memory" -> "backlight"

Init ==
    /\ flags \in SUBSET Flags
    /\ overflow_checks \in BOOLEAN
    /\ pc = "start"
    /\ ran = "none"
    /\ io = <<>>
    /\ out = <<>>
    /\ err = <<>>
    /\ panicked = "none"
    /\ exit = -1

\* the process ends: main returned Ok(()), or a query panicked before the
\* println! of its branch
Finish(branch, events, res, line, diags) ==
    /\ pc' = "done"
    /\ ran' = branch
    /\ io' = events
    /\ err' = diags
    /\ out' = IF res.kind = "panic" THEN <<>> ELSE <<line>>
    /\ panicked' = IF res.kind = "panic" THEN res.val ELSE "none"
    /\ exit' = IF res.kind = "panic" THEN 101 ELSE 0
    /\ UNCHANGED <<flags, overflow_checks>>

\* main.rs:158-167
Battery ==
    /\ pc = "start"
    /\ Branch(flags) = "battery"
    /\ \E c \in BatteryResults, s \in BatteryResults :
         LET capacity == get_battery_capacity(c)
             status   == get_battery_status(s)
         IN  Finish("battery",
                    <<Read(CapacityPath, c), Read(StatusPath, s)>>,
                    Ok(""),
                    Value(status) \o ": " \o Value(capacity) \o "%",
                    Diagnostic("battery capacity", capacity)
                        \o Diagnostic("battery status", status))

\* main.rs:168-173
BatteryState ==
    /\ pc = "start"
    /\ Branch(flags) = "battery-state"
    /\ \E s \in BatteryResults :
         LET status == get_battery_status(s)
         IN  Finish("battery-state", <<Read(StatusPath, s)>>, Ok(""),
                    Value(status), Diagnostic("battery status", status))

\* main.rs:174-179
BatteryCapacity ==
    /\ pc = "start"
    /\ Branch(flags) = "battery-capacity"
    /\ \E c \in BatteryResults :
         LET capacity == get_battery_capacity(c)
         IN  Finish("battery-capacity", <<Read(CapacityPath, c)>>, Ok(""),
                    Value(capacity) \o "%",
                    Diagnostic("battery capacity", capacity))

\* main.rs:180-185
VolumeLevel ==
    /\ pc = "start"
    /\ Branch(flags) = "volume-level"
    /\ \E sp \in VolumeResults :
         LET volume_level == get_volume_level(sp)
         IN  Finish("volume-level", <<Spawn(Amixer, sp)>>, volume_level,
                    Value(volume_level),
                    Diagnostic(DiagField("volume-level"), volume_level))

\* main.rs:186-191
Backlight ==
    /\ pc = "start"
    /\ Branch(flags) = "backlight"
    /\ \E b \in LevelResults, m \in LevelResults :
         LET backlight_percentage == get_brightness(b, m, overflow_checks)
         IN  Finish("backlight",
                    BrightnessReads(b, m),
                    backlight_percentage,
                    Value(backlight_percentage),
                    Diagnostic(DiagField("backlight"), backlight_percentage))

\* main.rs:192-197
Memory ==
    /\ pc = "start"
    /\ Branch(flags) = "memory"
    /\ \E r \in MeminfoResults :
         LET memory == get_memory(r, overflow_checks)
         IN  Finish("memory", <<Read(MeminfoPath, r)>>, memory,
                    Value(memory), Diagnostic(DiagField("memory"), memory))

\* main.rs:198-201
Help ==
    /\ pc = "start"
    /\ Branch(flags) = "help"
    /\ Finish("help", <<>>, Ok(""), UsageText, <<>>)

Next ==
    \/ Battery
    \/ BatteryState
    \/ BatteryCapacity
    \/ VolumeLevel
    \/ Backlight
    \/ Memory
    \/ Help

Spec == Init /\ [][Next]_vars

-----------------------------------------------------------------------------
(* Properties                                                              *)

Done == pc = "done"

\* the priority order of the flags: the order in which the spec lists them
Priority == <<"battery", "battery-state", "battery-capacity",
              "volume-level", "backlight", "memory">>

Rank(f) == CHOOSE i \in 1..Len(Priority) : Priority[i] = f

\* the set flag of highest priority
FirstFlag(fl) == CHOOSE f \in fl : \A g \in fl : Rank(f) <= Rank(g)

\* the external resources a query of flag f may touch
ResourcesOf(f) ==
    CASE f = "battery" -> {CapacityPath, StatusPath}
      [] f = "battery-state" -> {StatusPath}
      [] f = "battery-capacity" -> {CapacityPath}
      [] f = "volume-level" -> {Amixer}
      [] f = "backlight" -> {BrightnessPath, MaxBrightnessPath}
      [] f = "memory" -> {MeminfoPath}

\* the operations performed, without their results
Touched == [i \in 1..Len(io) |-> <<io[i].op, io[i].what>>]

\* the outcome recorded for a resource that was touched
ResultOf(what) == io[CHOOSE i \in 1..Len(io) : io[i].what = what].res

\* C1: for every subset of the six flags exactly one branch runs, the one of
\* the set flag that comes first in the priority order, and it touches only
\* that flag's resources; with no flag set no query runs, nothing is read or
\* spawned, only the usage text is printed and the exit code is 0.
C1_FirstFlagWins ==
    Done =>
        IF flags = {}
        THEN /\ ran = "help"
             /\ io = <<>>
             /\ out = <<UsageText>>
             /\ err = <<>>
             /\ exit = 0
        ELSE /\ ran = FirstFlag(flags)
             /\ io # <<>>
             /\ \A i \in 1..Len(io) : io[i].what \in ResourcesOf(FirstFlag(flags))

\* a run with three flags set, decided by the one of highest priority
C1_Witness ==
    /\ Done
    /\ flags = {"battery-capacity", "backlight", "memory"}
    /\ ran = "battery-capacity"
    /\ Touched = <<<<"read", CapacityPath>>>>

\* C2: no error is fatal: whatever the flags and the environment, the process
\* prints a result line, completes and exits with code 0; in particular the
\* backlight query and the volume query never abort, whatever brightness,
\* max_brightness and the mixer output hold.
C2_NoErrorIsFatal ==
    Done /\ ran \in {"backlight", "volume-level"} =>
        /\ exit = 0
        /\ panicked = "none"
        /\ Len(out) = 1

\* s with its leading and trailing white space removed, stated without the
\* recursion of Trim: the one substring of s that neither starts nor ends
\* with white space and has only white space around it
AllWhite(s) == \A i \in 1..Len(s) : IsWhite(Char(s, i))

Trimmed(s) ==
    CHOOSE t \in {SubSeq(s, i, j) : i \in 1..(Len(s) + 1), j \in 0..Len(s)} :
        /\ t = "" \/ (~IsWhite(Head(t)) /\ ~IsWhite(Last(t)))
        /\ \E a \in {SubSeq(s, 1, k) : k \in 0..Len(s)} :
             \E b \in {SubSeq(s, k, Len(s)) : k \in 1..(Len(s) + 1)} :
                AllWhite(a) /\ AllWhite(b) /\ s = a \o t \o b

\* the value main prints for a battery file, and the diagnostic it writes
FieldOf(what) ==
    IF ResultOf(what).ok THEN Trimmed(ResultOf(what).text) ELSE "Unknown"

DiagOf(field, what) ==
    IF ResultOf(what).ok THEN <<>>
    ELSE <<"Error reading " \o field \o ": " \o ResultOf(what).text>>

\* C3: in the battery modes the two files are read independently: a failed
\* read replaces only its own field by "Unknown" and writes one diagnostic,
\* the other field keeps its trimmed content, and exactly one result line is
\* printed in the format of the mode, with exit code 0.
C3_BatteryFieldsIndependent ==
    /\ Done /\ ran = "battery" =>
         /\ out = <<FieldOf(StatusPath) \o ": " \o FieldOf(CapacityPath) \o "%">>
         /\ err = DiagOf("battery capacity", CapacityPath)
                    \o DiagOf("battery status", StatusPath)
         /\ exit = 0
         /\ (~ResultOf(StatusPath).ok /\ ResultOf(CapacityPath) = Content("47\n")
                => out = <<"Unknown: 47%">>)
    /\ Done /\ ran = "battery-state" =>
         /\ out = <<FieldOf(StatusPath)>>
         /\ err = DiagOf("battery status", StatusPath)
         /\ exit = 0
    /\ Done /\ ran = "battery-capacity" =>
         /\ out = <<FieldOf(CapacityPath) \o "%">>
         /\ err = DiagOf("battery capacity", CapacityPath)
         /\ exit = 0

\* the spec's example: the status file unreadable, the capacity file "47\n"
C3_Witness ==
    /\ Done
    /\ ran = "battery"
    /\ ~ResultOf(StatusPath).ok
    /\ ResultOf(CapacityPath) = Content("47\n")
    /\ out = <<"Unknown: 47%">>
    /\ Len(err) = 1

\* C10: a run touches only the resources of the selected mode, once each and
\* in one sequence: amixer is spawned only in volume-level mode, the battery
\* modes read only capacity and/or status, backlight mode reads brightness
\* and then max_brightness (not the latter when the former failed), memory
\* mode reads /proc/meminfo, no flag touches nothing; nothing is written.
C10_OnlyTheModesResources ==
    Done =>
        /\ \A i \in 1..Len(io) : io[i].op \in {"read", "spawn"}
        /\ (\E i \in 1..Len(io) : io[i].op = "spawn")
              => flags # {} /\ FirstFlag(flags) = "volume-level"
        /\ Touched =
             IF flags = {} THEN <<>>
             ELSE CASE FirstFlag(flags) = "battery" ->
                         <<<<"read", CapacityPath>>, <<"read", StatusPath>>>>
                    [] FirstFlag(flags) = "battery-state" ->
                         <<<<"read", StatusPath>>>>
                    [] FirstFlag(flags) = "battery-capacity" ->
                         <<<<"read", CapacityPath>>>>
                    [] FirstFlag(flags) = "volume-level" ->
                         <<<<"spawn", Amixer>>>>
                    [] FirstFlag(flags) = "backlight" ->
                         IF io[1].res.ok
                         THEN <<<<"read", BrightnessPath>>,
                                <<"read", MaxBrightnessPath>>>>
                         ELSE <<<<"read", BrightnessPath>>>>
                    [] FirstFlag(flags) = "memory" ->
                         <<<<"read", MeminfoPath>>>>

\* backlight mode with an unreadable brightness file: one read, no second
C10_Witness ==
    /\ Done
    /\ ran = "backlight"
    /\ ~io[1].res.ok
    /\ Touched = <<<<"read", BrightnessPath>>>>
    /\ out = <<"Unknown">>

\* the captured mixer output of a volume-level run whose spawn succeeded
VolumeRun == Done /\ ran = "volume-level" /\ io[1].res.ok

MixerLines == Lines(io[1].res.text)

Muted(line) == Contains(line, "[off]")

Channel(line) == Contains(line, "Mono:") \/ Contains(line, "Front Left:")

\* a channel line from which a percentage is extracted
Decisive(line) == Channel(line) /\ Contains(line, "[") /\ Contains(line, "%")

\* the first index of ls whose line satisfies P
FirstIndex(ls, P(_)) ==
    CHOOSE i \in 1..Len(ls) : P(ls[i]) /\ \A j \in 1..(i - 1) : ~P(ls[j])

\* C4 as claimed: whenever any line of the mixer output contains "[off]" the
\* result is "MUTED", wherever that line stands relative to the channel lines.
C4_MutedWhereverTheLineStands ==
    VolumeRun /\ (\E i \in 1..Len(MixerLines) : Muted(MixerLines[i]))
        => out = <<"MUTED">>

\* C4 as amended: a line containing "[off]" gives "MUTED" when no earlier line
\* is a channel line holding both '[' and '%' (the marker wins on its own
\* line, whatever percentage that line holds); when an earlier line is such a
\* channel line without the marker, the scan ends there and the result is
\* not "MUTED".
C4_MutedUnlessDecidedEarlier ==
    VolumeRun =>
        \A i \in 1..Len(MixerLines) :
            Muted(MixerLines[i]) /\ (\A k \in 1..(i - 1) : ~Muted(MixerLines[k])) =>
                IF \A j \in 1..(i - 1) : ~Decisive(MixerLines[j])
                THEN out = <<"MUTED">> /\ exit = 0
                ELSE out # <<"MUTED">>

\* the marker on a later line than a channel line without brackets, and the
\* marker on the line of the percentage itself
C4_Witness ==
    /\ VolumeRun
    /\ MixerLines = <<"  Mono:", "  Mono: Playback 50 [65%] [-10.00dB] [off]">>
    /\ out = <<"MUTED">>

\* C5 as claimed: with no "[off]" line, the first line containing "Mono:" or
\* "Front Left:" decides: the result is "VOL: " followed by the substring of
\* that line from its first '[' through its first '%', both included; with
\* no such line the result is "Unknown".
C5_FromTheBracketThroughThePercent ==
    VolumeRun /\ (\A i \in 1..Len(MixerLines) : ~Muted(MixerLines[i])) =>
        IF \E i \in 1..Len(MixerLines) : Channel(MixerLines[i])
        THEN LET line  == MixerLines[FirstIndex(MixerLines, Channel)]
                 start == Find(line, "[")
                 end   == Find(line, "%")
             IN  /\ start # -1
                 /\ end # -1
                 /\ start < end
                 /\ out = <<"VOL: " \o SubSeq(line, start + 1, end + 1)>>
        ELSE out = <<"Unknown">>

\* C5 as amended: with no "[off]" line, the first channel line that holds
\* both '[' and '%' decides (channel lines lacking either are passed over):
\* the result is "VOL: " followed by the characters after the first '[' up
\* to and including the first '%' when the '[' comes first, and the run
\* panics without a result line (exit code 101) when the '%' comes first;
\* with no such line the result is "Unknown".
C5_AfterTheBracketThroughThePercent ==
    VolumeRun /\ (\A i \in 1..Len(MixerLines) : ~Muted(MixerLines[i])) =>
        IF \E i \in 1..Len(MixerLines) : Decisive(MixerLines[i])
        THEN LET line  == MixerLines[FirstIndex(MixerLines, Decisive)]
                 start == Find(line, "[")
                 end   == Find(line, "%")
             IN  IF start < end
                 THEN /\ out = <<"VOL: " \o SubSeq(line, start + 2, end + 1)>>
                      /\ exit = 0
                 ELSE /\ out = <<>>
                      /\ panicked # "none"
                      /\ exit = 101
        ELSE out = <<"Unknown">> /\ exit = 0

\* a channel line without brackets is passed over, the next one decides
C5_Witness ==
    /\ VolumeRun
    /\ MixerLines = <<"  Mono:", "  Front Left: Playback 40 [40%] [on]">>
    /\ out = <<"VOL: 40%">>

\* a run that ended in a panic: nothing on standard output, exit code 101
Aborted == out = <<>> /\ panicked # "none" /\ exit = 101

\* a backlight run that could read both files, and the two parsed levels
BacklightRun ==
    Done /\ ran = "backlight" /\ Len(io) = 2 /\ io[1].res.ok /\ io[2].res.ok

Current == ParseI32Or(Trim(io[1].res.text), 0)

Maximum == ParseI32Or(Trim(io[2].res.text), 1)

\* floor(a / b) for b # 0 and |a| < 2^31
FloorDiv(a, b) ==
    IF b > 0 THEN a \div b
    ELSE IF b = I32Min THEN (IF a > 0 THEN -1 ELSE 0)
    ELSE (0 - a) \div (0 - b)

\* C6 as claimed, in the case most favourable to it (levels that are not
\* negative, a positive max, a product within i32): with both files readable
\* the result is "BL: <p>%" with p = floor(current * 100 / max); p is 100
\* whenever current = max and exceeds 100 whenever current > max.
C6_FloorPercentage ==
    BacklightRun /\ Current >= 0 /\ Maximum > 0 /\ ~Mul100Overflows(Current) =>
        /\ out = <<"BL: " \o I32Str(FloorDiv(Current * 100, Maximum)) \o "%">>
        /\ Current = Maximum => out = <<"BL: 100%">>
        /\ Current > Maximum => FloorDiv(Current * 100, Maximum) > 100

\* C6 as amended: with both files readable, max # 0 and current * 100 within
\* i32, the result is "BL: <p>%" with p the quotient of current * 100 by max
\* truncated toward zero, not clamped: p is 100 whenever current = max and at
\* least 100 whenever current > max > 0.  With max = 0 the division panics
\* and no result line is printed (exit code 101).  With current * 100
\* outside i32 a build with overflow checks panics, and a build without
\* them divides the product wrapped to 32 bits (and panics as well when
\* that is i32::MIN and max is -1).
C6_TruncatedPercentage ==
    BacklightRun =>
        LET over == Mul100Overflows(Current)
            prod == IF over THEN WrapMul100(Current) ELSE Current * 100
        IN  IF over /\ overflow_checks THEN Aborted
            ELSE IF Maximum = 0 \/ (prod = I32Min /\ Maximum = -1) THEN Aborted
            ELSE /\ out = <<"BL: " \o I32Str(TruncDiv(prod, Maximum)) \o "%">>
                 /\ err = <<>>
                 /\ exit = 0
                 /\ ~over /\ Current = Maximum => out = <<"BL: 100%">>
                 /\ ~over /\ Current > Maximum /\ Maximum > 0
                        => TruncDiv(prod, Maximum) >= 100

\* current above max by less than one percent: the result is 100, not more
C6_Witness ==
    /\ BacklightRun
    /\ io[1].res.text = "1001\n"
    /\ io[2].res.text = "1000\n"
    /\ out = <<"BL: 100%">>

\* a memory run that could read /proc/meminfo, and the lines get_memory scans
MemoryRun == Done /\ ran = "memory" /\ io[1].res.ok

MeminfoLines == Lines(Trim(io[1].res.text))

Keyed(ls, key) == {i \in 1..Len(ls) : StartsWith(ls[i], key)}

\* the result for a total and an available value whose difference fits i64
MemResult(total, available) ==
    LET diff == SignedAdd(total, Negate(available))
    IN  "MEM: " \o SignedStr(Signed(diff.neg, MagDiv(diff.mag, 1024))) \o "M"

\* C7 as claimed: if no "MemTotal:" line yields a non-zero value the result is
\* "Unable to retrieve memory info" without a diagnostic; otherwise it is
\* "MEM: <used>M" with used = (total - available) / 1024 for the values of a
\* "MemTotal:" line and of a "MemAvailable:" line (0 when there is none).
C7_AnyNonZeroTotal ==
    MemoryRun =>
        LET totals == {parse_meminfo_value(MeminfoLines[i]) :
                          i \in Keyed(MeminfoLines, "MemTotal:")}
            avails == {parse_meminfo_value(MeminfoLines[i]) :
                          i \in Keyed(MeminfoLines, "MemAvailable:")}
        IN  IF totals \subseteq {Zero}
            THEN out = <<"Unable to retrieve memory info">> /\ err = <<>>
            ELSE \E t \in totals \ {Zero} :
                 \E a \in (IF avails = {} THEN {Zero} ELSE avails) :
                    /\ FitsI64(SignedAdd(t, Negate(a)))
                    /\ out = <<MemResult(t, a)>>

\* the value of the last line of ls that starts with key, 0 without one
LastValue(ls, key) ==
    IF Keyed(ls, key) = {} THEN Zero
    ELSE parse_meminfo_value(
             ls[CHOOSE i \in Keyed(ls, key) : \A j \in Keyed(ls, key) : j <= i])

\* C7 as amended: total and available are the values of the last line of the
\* trimmed text starting with "MemTotal:" and with "MemAvailable:" (0 with no
\* such line, no second token or a token that is no i64).  If total is 0 the
\* result is "Unable to retrieve memory info", without a diagnostic; else it
\* is "MEM: <used>M" with used = (total - available) / 1024 truncated toward
\* zero when total - available fits i64; when it does not, a build with
\* overflow checks panics (exit code 101) and a build without them divides
\* the difference wrapped to 64 bits.
C7_LastTotalDecides ==
    MemoryRun =>
        LET total     == LastValue(MeminfoLines, "MemTotal:")
            available == LastValue(MeminfoLines, "MemAvailable:")
            diff      == SignedAdd(total, Negate(available))
            wrapped   == WrapI64(diff)
        IN  /\ err = <<>>
            /\ IF total = Zero
               THEN out = <<"Unable to retrieve memory info">> /\ exit = 0
               ELSE IF FitsI64(diff)
               THEN out = <<MemResult(total, available)>> /\ exit = 0
               ELSE IF overflow_checks THEN Aborted
               ELSE /\ exit = 0
                    /\ out = <<"MEM: "
                                 \o SignedStr(Signed(wrapped.neg,
                                                     MagDiv(wrapped.mag, 1024)))
                                 \o "M">>
            /\ io[1].res.text = "MemTotal:       16000000 kB\nMemAvailable:    8000000 kB\n"
                  => out = <<"MEM: 7812M">>

\* two MemTotal: lines with different values: the later one is used
C7_Witness ==
    /\ MemoryRun
    /\ MeminfoLines = <<"MemTotal: 2048 kB", "MemTotal:       16000000 kB">>
    /\ out = <<"MEM: 15625M">>

\* the field a resource's diagnostic should name
FieldName(what) ==
    CASE what = CapacityPath -> "battery capacity"
      [] what = StatusPath -> "battery status"
      [] what = Amixer -> "volume level"
      [] what \in {BrightnessPath, MaxBrightnessPath} -> "backlight"
      [] what = MeminfoPath -> "memory"

Failed == {i \in 1..Len(io) : ~io[i].res.ok}

\* C8: a line is written to standard error if and only if an I/O error
\* occurred; it reads "Error reading <field>: <cause>" with <field> naming
\* the value the failing query was reading, and the missing value is
\* "Unknown" on standard output.
C8_DiagnosticNamesTheField ==
    Done =>
        /\ err # <<>> <=> Failed # {}
        /\ Len(err) = Cardinality(Failed)
        /\ \A i \in Failed :
              \E k \in 1..Len(err) :
                 err[k] = "Error reading " \o FieldName(io[i].what) \o ": "
                             \o io[i].res.text
        /\ Failed # {} => Contains(out[1], "Unknown")

\* the permutations of 1..n
Perms(n) == {p \in [1..n -> 1..n] : \A i, j \in 1..n : p[i] = p[j] => i = j}

\* get_memory is the same for every order of the lines of text
OrderIndependent(text) ==
    LET ls == Lines(text)
    IN  \A p \in Perms(Len(ls)) :
           get_memory(Content(Unlines([i \in 1..Len(ls) |-> ls[p[i]]])),
                      overflow_checks)
             = get_memory(Content(text), overflow_checks)

MemKeys == {"MemTotal:", "MemAvailable:"}

\* no line is a key behind leading white space (such a line counts only as
\* the first line of the text, where the trim of the whole text removes the
\* space)
NoIndentedKey(text) ==
    \A i \in 1..Len(Lines(text)) : \A key \in MemKeys :
        StartsWith(TrimStart(Lines(text)[i]), key) => StartsWith(Lines(text)[i], key)

\* the lines starting with one key all yield one value
OneValuePerKey(text) ==
    \A key \in MemKeys : \A i, j \in Keyed(Lines(text), key) :
        parse_meminfo_value(Lines(text)[i]) = parse_meminfo_value(Lines(text)[j])

Unambiguous(text) == NoIndentedKey(text) /\ OneValuePerKey(text)

\* C9 as claimed, for texts whose keys are not indented: for any permutation
\* of the lines of the text get_memory returns the same result, also when a
\* prefix occurs on several lines with different values.
C9_AnyOrderSameResult ==
    MemoryRun /\ NoIndentedKey(io[1].res.text) => OrderIndependent(io[1].res.text)

\* C9 as amended: get_memory returns the same result for every permutation
\* of the lines of a text in which the lines starting with "MemTotal:" all
\* yield one value, those starting with "MemAvailable:" all yield one value,
\* and no line has white space in front of either prefix.
C9_SameResultWhenUnambiguous ==
    MemoryRun /\ Unambiguous(io[1].res.text) => OrderIndependent(io[1].res.text)

\* both keys present once, available before total, and the result computed
C9_Witness ==
    /\ MemoryRun
    /\ Lines(io[1].res.text) = <<"MemAvailable:    8000000 kB",
                                 "MemTotal:       16000000 kB">>
    /\ Unambiguous(io[1].res.text)
    /\ out = <<"MEM: 7812M">>

====
